---- MODULE Spec2Model ----
(***************************************************************************)
(* Model of the FXOS8700CQ driver, capsules/extra/src/fxos8700cq.rs.       *)
(*                                                                         *)
(* The driver is a state machine driven by four entry points:              *)
(*   read_accelerometer / read_magnetometer  (requests of the client),     *)
(*   fired                                   (GPIO interrupt edge),        *)
(*   command_complete                        (I2C transaction completed).  *)
(* The I2C device, the interrupt pin and the NineDof client are the        *)
(* environment: the device accepts or refuses a transaction, completes an  *)
(* accepted one with success or an error, the pin level changes at any     *)
(* time, and the client may issue a request from inside its callback.      *)
(***************************************************************************)
EXTENDS Integers, Sequences, FiniteSets, TLC

VARIABLES
    state,        \* Fxos8700cq.state: the tag of the State enum
    deact,        \* payload (x, y, z) of State::ReadAccelDeactivating
    buffer,       \* Fxos8700cq.buffer (TakeCell): <<>> or <<contents>>
    callback,     \* Fxos8700cq.callback (OptionalCell): a client is set
    ops,          \* I2C device: accepted transactions not yet completed
    i2c_enabled,  \* I2C device: enable() / disable()
    int_enabled,  \* interrupt pin: falling-edge interrupt enabled
    pin_input,    \* interrupt pin: make_input() was called
    pin,          \* interrupt line level (TRUE = high, FALSE = low)
    raw,          \* the bytes most recently returned by a read transaction
    accepted,     \* number of requests that returned Ok(())
    callbacks,    \* number of NineDofClient::callback invocations
    last          \* what the most recent entry point did

vars == <<state, deact, buffer, callback, ops, i2c_enabled, int_enabled,
          pin_input, pin, raw, accepted, callbacks, last>>

\* Requests accepted in one behaviour.
MaxRequests == 2

\* pub const BUF_LEN
BUF_LEN == 6

\* enum Registers
OutXMsb == 1
CtrlReg1 == 42
CtrlReg4 == 45
MOutXMsb == 51
MCtrlReg1 == 91

\* kernel::hil::i2c::Error values the device may report.
I2CError == {"DataNak", "ArbitrationLost"}

\* Result of handing a transaction to the device, and status of a completion.
I2CResult == {"Ok"} \cup I2CError

\* impl From<i2c::Error> for ErrorCode, as used by `error.into()`.
into(error) == "I2C:" \o error

\* Sample bytes a 6-byte read may return.
SampleSet == { <<16, 0, 32, 0, 48, 0>>,
               <<255, 255, 0, 1, 128, 0>>,
               <<0, 0, 0, 0, 0, 0>> }

ZeroBuf == [i \in 1..BUF_LEN |-> 0]

----------------------------------------------------------------------------
(* Integer arithmetic of the decode, with Rust's widths.                   *)

\* Reinterpretation of an integer as i16 (two's complement, wrapping).
I16(v) == LET m == v % 65536 IN IF m >= 32768 THEN m - 65536 ELSE m

\* Reinterpretation of an integer as u16.
U16(v) == v % 65536

RECURSIVE BitOr(_, _, _)
\* Bitwise OR of the low n bits of two non-negative integers.
BitOr(a, b, n) ==
    IF n = 0 THEN 0
    ELSE (IF (a % 2 = 1) \/ (b % 2 = 1) THEN 1 ELSE 0)
         + 2 * BitOr(a \div 2, b \div 2, n - 1)

\* Rust's `/` on signed integers: truncation toward zero.
TruncDiv(a, b) == IF a >= 0 THEN a \div b ELSE -((-a) \div b)

\* A usize of a 32-bit target, as its two 16-bit halves (the model checker's
\* integers are 32-bit signed and cannot hold it).
Usize(n) == [hi |-> n \div 65536, lo |-> n % 65536]

\* `x as usize` for an i16 x: sign extension to the word, then the same bits.
AsUsize(x) == [hi |-> IF x < 0 THEN 65535 ELSE 0, lo |-> U16(x)]

\* accel_axis without the shift that drops the two padding bits.
accel_axis_noshift(hi, lo) ==
    LET packed == I16(BitOr(U16(hi * 256), lo, 16))
        scaled == TruncDiv(packed * 244, 1000)
    IN  I16(scaled)

\* accel_axis whose division rounds down instead of toward zero.
accel_axis_floor(hi, lo) ==
    LET packed  == I16(BitOr(U16(hi * 256), lo, 16))
        shifted == packed \div 4
        scaled  == (shifted * 244) \div 1000
    IN  I16(scaled)

\* (((hi as i16) << 8) | lo as i16) >> 2, then (x as isize) * 244 / 1000, as i16
accel_axis(hi, lo) ==
    LET packed  == I16(BitOr(U16(hi * 256), lo, 16))
        shifted == packed \div 4        \* arithmetic shift: floor
        scaled  == TruncDiv(shifted * 244, 1000)
    IN  I16(scaled)

\* mag_axis without the final cast to i16.
mag_axis_unsigned(hi, lo) == BitOr(U16(hi * 256), lo, 16)

\* (((hi as u16) << 8) | lo as u16) as i16
mag_axis(hi, lo) == I16(BitOr(U16(hi * 256), lo, 16))

----------------------------------------------------------------------------
(* The driver, the I2C device it talks to and the client, as one record,   *)
(* so that an entry point is the composition of its statements.            *)
(* `cbs`, `issued` and `ret` collect what one entry point did.             *)

Driver ==
    [ state |-> state, deact |-> deact, buffer |-> buffer,
      callback |-> callback, ops |-> ops, i2c_enabled |-> i2c_enabled,
      int_enabled |-> int_enabled, pin_input |-> pin_input,
      accepted |-> accepted, callbacks |-> callbacks,
      cbs |-> <<>>, issued |-> <<>>, ret |-> "none" ]

\* self.state.set(s) for a variant without payload
set_state(d, s) == [d EXCEPT !.state = s, !.deact = <<0, 0, 0>>]

\* I2CDevice::write / write_read: the device takes the buffer (res = "Ok") or
\* hands it back with an error. `by` is the entry point that makes the call.
i2c_issue(d, kind, buf, wlen, rlen, res, by) ==
    LET call == [ kind |-> kind, wlen |-> wlen, rlen |-> rlen,
                  data |-> SubSeq(buf, 1, wlen), by |-> by, res |-> res,
                  enabled |-> d.i2c_enabled, held |-> d.buffer # <<>>,
                  pending |-> Len(d.ops), armed |-> d.int_enabled ]
    IN  IF res = "Ok"
        THEN [d EXCEPT !.issued = Append(@, call),
                       !.ops = Append(@, [ kind |-> kind, wlen |-> wlen,
                                           rlen |-> rlen, buf |-> buf ])]
        ELSE [d EXCEPT !.issued = Append(@, call)]

\* start_read_accel that, when the write is refused, returns the error
\* without putting the buffer back and disabling the device.
start_read_accel_noreplace(d, res) ==
    IF d.state = "Disabled"
    THEN LET d1 == [d EXCEPT !.pin_input = TRUE]
         IN  IF d1.buffer = <<>>
             THEN [d1 EXCEPT !.ret = "NOMEM"]
             ELSE LET buf == [Head(d1.buffer) EXCEPT ![1] = CtrlReg4,
                                                     ![2] = 1, ![3] = 1]
                      d2  == [d1 EXCEPT !.buffer = <<>>, !.i2c_enabled = TRUE]
                      d3  == i2c_issue(d2, "write", buf, 3, 0, res,
                                       "read_accelerometer")
                  IN  IF res # "Ok"
                      THEN [d3 EXCEPT !.ret = into(res)]
                      ELSE [set_state(d3, "ReadAccelSetup")
                               EXCEPT !.ret = "Ok", !.accepted = @ + 1]
    ELSE [d EXCEPT !.ret = "BUSY"]

\* fn start_read_accel(&self) -> Result<(), ErrorCode>
start_read_accel(d, res) ==
    IF d.state = "Disabled"
    THEN LET d1 == [d EXCEPT !.pin_input = TRUE]
         IN  IF d1.buffer = <<>>
             THEN [d1 EXCEPT !.ret = "NOMEM"]
             ELSE LET buf == [Head(d1.buffer) EXCEPT ![1] = CtrlReg4,
                                                     ![2] = 1, ![3] = 1]
                      d2  == [d1 EXCEPT !.buffer = <<>>, !.i2c_enabled = TRUE]
                      d3  == i2c_issue(d2, "write", buf, 3, 0, res,
                                       "read_accelerometer")
                  IN  IF res # "Ok"
                      THEN [d3 EXCEPT !.buffer = <<buf>>,
                                      !.i2c_enabled = FALSE,
                                      !.ret = into(res)]
                      ELSE [set_state(d3, "ReadAccelSetup")
                               EXCEPT !.ret = "Ok", !.accepted = @ + 1]
    ELSE [d EXCEPT !.ret = "BUSY"]

\* start_read_magnetometer without the check of self.state.
start_read_magnetometer_nocheck(d, res) ==
    IF d.buffer = <<>>
    THEN [d EXCEPT !.ret = "NOMEM"]
    ELSE LET buf == [Head(d.buffer) EXCEPT ![1] = MCtrlReg1, ![2] = 35]
             d2  == [d EXCEPT !.buffer = <<>>, !.i2c_enabled = TRUE]
             d3  == i2c_issue(d2, "write", buf, 2, 0, res,
                              "read_magnetometer")
         IN  IF res # "Ok"
             THEN [d3 EXCEPT !.buffer = <<buf>>,
                             !.i2c_enabled = FALSE,
                             !.ret = into(res)]
             ELSE [set_state(d3, "ReadMagStart")
                      EXCEPT !.ret = "Ok", !.accepted = @ + 1]

\* fn start_read_magnetometer(&self) -> Result<(), ErrorCode>
start_read_magnetometer(d, res) ==
    IF d.state = "Disabled"
    THEN IF d.buffer = <<>>
         THEN [d EXCEPT !.ret = "NOMEM"]
         ELSE LET buf == [Head(d.buffer) EXCEPT ![1] = MCtrlReg1, ![2] = 35]
                  d2  == [d EXCEPT !.buffer = <<>>, !.i2c_enabled = TRUE]
                  d3  == i2c_issue(d2, "write", buf, 2, 0, res,
                                   "read_magnetometer")
              IN  IF res # "Ok"
                  THEN [d3 EXCEPT !.buffer = <<buf>>,
                                  !.i2c_enabled = FALSE,
                                  !.ret = into(res)]
                  ELSE [set_state(d3, "ReadMagStart")
                           EXCEPT !.ret = "Ok", !.accepted = @ + 1]
    ELSE [d EXCEPT !.ret = "BUSY"]

\* What the client does inside its callback: nothing, or a new request.
NoReentry == [kind |-> "none", res |-> "Ok"]

Reentry == {NoReentry}
           \cup [kind : {"read_accelerometer", "read_magnetometer"},
                 res : I2CResult]

\* self.callback.map(|cb| cb.callback(x as usize, y as usize, z as usize)).
\* The record appended to `cbs` is the driver as the client sees it when it
\* is called, and the result of the request the client makes from there.
client_callback(d, x, y, z, re) ==
    IF ~d.callback
    THEN d
    ELSE LET d1 == [d EXCEPT !.callbacks = @ + 1]
             d2 == IF re.kind = "read_accelerometer"
                   THEN start_read_accel(d1, re.res)
                   ELSE IF re.kind = "read_magnetometer"
                   THEN start_read_magnetometer(d1, re.res)
                   ELSE d1
             seen == [ args |-> <<AsUsize(x), AsUsize(y), AsUsize(z)>>,
                       state |-> d.state, held |-> d.buffer # <<>>,
                       i2c_enabled |-> d.i2c_enabled,
                       int_enabled |-> d.int_enabled,
                       re |-> re.kind, ret |-> d2.ret,
                       reached |-> Len(d2.issued) > Len(d1.issued) ]
         IN  [d2 EXCEPT !.cbs = Append(@, seen), !.ret = d.ret]

\* fired() without self.i2c.enable().
fired_noenable(d, res) ==
    IF d.buffer = <<>>
    THEN d
    ELSE LET buf == [Head(d.buffer) EXCEPT ![1] = OutXMsb]
             d1  == [d EXCEPT !.buffer = <<>>, !.int_enabled = FALSE]
             d2  == i2c_issue(d1, "write_read", buf, 1, 6, res, "fired")
         IN  IF res # "Ok"
             THEN [d2 EXCEPT !.buffer = <<buf>>, !.i2c_enabled = FALSE]
             ELSE set_state(d2, "ReadAccelReading")

\* impl gpio::Client: fn fired(&self)
fired(d, res) ==
    IF d.buffer = <<>>
    THEN d
    ELSE LET buf == [Head(d.buffer) EXCEPT ![1] = OutXMsb]
             d1  == [d EXCEPT !.buffer = <<>>, !.int_enabled = FALSE,
                              !.i2c_enabled = TRUE]
             d2  == i2c_issue(d1, "write_read", buf, 1, 6, res, "fired")
         IN  IF res # "Ok"
             THEN [d2 EXCEPT !.buffer = <<buf>>, !.i2c_enabled = FALSE]
             ELSE set_state(d2, "ReadAccelReading")

\* The error branch without self.buffer.replace(buffer).
on_error_noreplace(d, buf, re) ==
    client_callback(set_state(d, "Disabled"), 0, 0, 0, re)

\* command_complete, `if status != Ok(())`: reset and call back with zeros.
on_error(d, buf, re) ==
    client_callback([set_state(d, "Disabled") EXCEPT !.buffer = <<buf>>],
                    0, 0, 0, re)

\* The failure branch shared by the arms that cannot issue their transaction.
issue_failed(d, buf, re) ==
    client_callback([set_state(d, "Disabled") EXCEPT !.buffer = <<buf>>],
                    0, 0, 0, re)

\* ReadAccelSetup that enables the interrupt after handing over the write.
arm_ReadAccelSetup_late(d, buffer0, res, re) ==
    LET buf == [buffer0 EXCEPT ![1] = CtrlReg1, ![2] = 1]
        d1  == i2c_issue(d, "write", buf, 2, 0, res, "command_complete")
        d2  == [d1 EXCEPT !.int_enabled = TRUE]
    IN  IF res # "Ok"
        THEN issue_failed(d2, buf, re)
        ELSE set_state(d2, "ReadAccelWait")

\* command_complete, State::ReadAccelSetup
arm_ReadAccelSetup(d, buffer0, res, re) ==
    LET d1  == [d EXCEPT !.int_enabled = TRUE]
        buf == [buffer0 EXCEPT ![1] = CtrlReg1, ![2] = 1]
        d2  == i2c_issue(d1, "write", buf, 2, 0, res, "command_complete")
    IN  IF res # "Ok"
        THEN issue_failed(d2, buf, re)
        ELSE set_state(d2, "ReadAccelWait")

\* ReadAccelWait whose waiting branch does not put the buffer back.
arm_ReadAccelWait_noreplace(d, buffer0, res, level, re) ==
    IF level = FALSE
    THEN LET d1  == [d EXCEPT !.int_enabled = FALSE]
             buf == [buffer0 EXCEPT ![1] = OutXMsb]
             d2  == i2c_issue(d1, "write_read", buf, 1, 6, res,
                              "command_complete")
         IN  IF res # "Ok"
             THEN issue_failed(d2, buf, re)
             ELSE set_state(d2, "ReadAccelReading")
    ELSE set_state([d EXCEPT !.i2c_enabled = FALSE], "ReadAccelWaiting")

\* ReadAccelWait that does not read the line and always waits for the edge.
arm_ReadAccelWait_nopoll(d, buffer0, res, level, re) ==
    set_state([d EXCEPT !.buffer = <<buffer0>>, !.i2c_enabled = FALSE],
              "ReadAccelWaiting")

\* ReadAccelWait that leaves the interrupt enabled when it finds the line low.
arm_ReadAccelWait_nodisarm(d, buffer0, res, level, re) ==
    IF level = FALSE
    THEN LET buf == [buffer0 EXCEPT ![1] = OutXMsb]
             d2  == i2c_issue(d, "write_read", buf, 1, 6, res,
                              "command_complete")
         IN  IF res # "Ok"
             THEN issue_failed(d2, buf, re)
             ELSE set_state(d2, "ReadAccelReading")
    ELSE set_state([d EXCEPT !.buffer = <<buffer0>>, !.i2c_enabled = FALSE],
                   "ReadAccelWaiting")

\* command_complete, State::ReadAccelWait; level is interrupt_pin1.read()
arm_ReadAccelWait(d, buffer0, res, level, re) ==
    IF level = FALSE
    THEN LET d1  == [d EXCEPT !.int_enabled = FALSE]
             buf == [buffer0 EXCEPT ![1] = OutXMsb]
             d2  == i2c_issue(d1, "write_read", buf, 1, 6, res,
                              "command_complete")
         IN  IF res # "Ok"
             THEN issue_failed(d2, buf, re)
             ELSE set_state(d2, "ReadAccelReading")
    ELSE set_state([d EXCEPT !.buffer = <<buffer0>>, !.i2c_enabled = FALSE],
                   "ReadAccelWaiting")

\* ReadAccelReading that reports the decoded values when the standby write
\* is refused.
arm_ReadAccelReading_leak(d, buffer0, res, re) ==
    LET x   == accel_axis(buffer0[1], buffer0[2])
        y   == accel_axis(buffer0[3], buffer0[4])
        z   == accel_axis(buffer0[5], buffer0[6])
        buf == [buffer0 EXCEPT ![1] = CtrlReg1, ![2] = 0]
        d1  == i2c_issue(d, "write", buf, 2, 0, res, "command_complete")
    IN  IF res # "Ok"
        THEN client_callback([set_state(d1, "Disabled")
                                 EXCEPT !.buffer = <<buf>>], x, y, z, re)
        ELSE [d1 EXCEPT !.state = "ReadAccelDeactivating",
                        !.deact = <<x, y, z>>]

\* command_complete, State::ReadAccelReading
arm_ReadAccelReading(d, buffer0, res, re) ==
    LET x   == accel_axis(buffer0[1], buffer0[2])
        y   == accel_axis(buffer0[3], buffer0[4])
        z   == accel_axis(buffer0[5], buffer0[6])
        buf == [buffer0 EXCEPT ![1] = CtrlReg1, ![2] = 0]
        d1  == i2c_issue(d, "write", buf, 2, 0, res, "command_complete")
    IN  IF res # "Ok"
        THEN issue_failed(d1, buf, re)
        ELSE [d1 EXCEPT !.state = "ReadAccelDeactivating",
                        !.deact = <<x, y, z>>]

\* command_complete, State::ReadAccelDeactivating(x, y, z)
arm_ReadAccelDeactivating(d, buffer0, re) ==
    LET x  == d.deact[1]
        y  == d.deact[2]
        z  == d.deact[3]
        d1 == [d EXCEPT !.i2c_enabled = FALSE]
        d2 == set_state(d1, "Disabled")
        d3 == [d2 EXCEPT !.buffer = <<buffer0>>]
    IN  client_callback(d3, x, y, z, re)

\* ReadMagStart that also enables the interrupt of the data-ready line.
arm_ReadMagStart_arms(d, buffer0, res, re) ==
    LET buf == [buffer0 EXCEPT ![1] = MOutXMsb]
        d1  == set_state([d EXCEPT !.int_enabled = TRUE], "ReadMagValues")
        d2  == i2c_issue(d1, "write_read", buf, 1, 6, res, "command_complete")
    IN  IF res # "Ok"
        THEN issue_failed(d2, buf, re)
        ELSE d2

\* command_complete, State::ReadMagStart
arm_ReadMagStart(d, buffer0, res, re) ==
    LET buf == [buffer0 EXCEPT ![1] = MOutXMsb]
        d1  == set_state(d, "ReadMagValues")
        d2  == i2c_issue(d1, "write_read", buf, 1, 6, res, "command_complete")
    IN  IF res # "Ok"
        THEN issue_failed(d2, buf, re)
        ELSE d2

\* ReadMagValues that calls the client before it resets the state and puts
\* the buffer back.
arm_ReadMagValues_early(d, buffer0, re) ==
    LET x  == mag_axis(buffer0[1], buffer0[2])
        y  == mag_axis(buffer0[3], buffer0[4])
        z  == mag_axis(buffer0[5], buffer0[6])
        d1 == client_callback(d, x, y, z, re)
        d2 == [d1 EXCEPT !.i2c_enabled = FALSE]
        d3 == set_state(d2, "Disabled")
    IN  [d3 EXCEPT !.buffer = <<buffer0>>]

\* command_complete, State::ReadMagValues
arm_ReadMagValues(d, buffer0, re) ==
    LET x  == mag_axis(buffer0[1], buffer0[2])
        y  == mag_axis(buffer0[3], buffer0[4])
        z  == mag_axis(buffer0[5], buffer0[6])
        d1 == [d EXCEPT !.i2c_enabled = FALSE]
        d2 == set_state(d1, "Disabled")
        d3 == [d2 EXCEPT !.buffer = <<buffer0>>]
    IN  client_callback(d3, x, y, z, re)

\* impl I2CClient: fn command_complete(&self, buffer, status).
\* res is the device's answer to the transaction this call issues (if any),
\* level the interrupt line, re what the client does inside its callback.
command_complete(d, buffer0, status, res, level, re) ==
    IF status # "Ok"
    THEN on_error(d, buffer0, re)
    ELSE CASE d.state = "ReadAccelSetup" ->
                  arm_ReadAccelSetup(d, buffer0, res, re)
           [] d.state = "ReadAccelWait" ->
                  arm_ReadAccelWait(d, buffer0, res, level, re)
           [] d.state = "ReadAccelReading" ->
                  arm_ReadAccelReading(d, buffer0, res, re)
           [] d.state = "ReadAccelDeactivating" ->
                  arm_ReadAccelDeactivating(d, buffer0, re)
           [] d.state = "ReadMagStart" ->
                  arm_ReadMagStart(d, buffer0, res, re)
           [] d.state = "ReadMagValues" ->
                  arm_ReadMagValues(d, buffer0, re)
           [] OTHER -> d      \* `_ => {}`: the buffer passed in is dropped

\* impl NineDof: fn set_client(&self, client)
set_client(d) == [d EXCEPT !.callback = TRUE]

----------------------------------------------------------------------------
(* The state machine.                                                      *)

States == { "Disabled", "ReadAccelSetup", "ReadAccelWait", "ReadAccelWaiting",
            "ReadAccelReading", "ReadAccelDeactivating", "ReadMagStart",
            "ReadMagValues" }

NoEntry ==
    [ op |-> "new", from |-> "Disabled", carried |-> <<0, 0, 0>>,
      status |-> "none", level |-> TRUE, ret |-> "none",
      cbs |-> <<>>, issued |-> <<>> ]

\* Fxos8700cq::new: Disabled, the buffer in the TakeCell, no client.
Init ==
    /\ state = "Disabled"
    /\ deact = <<0, 0, 0>>
    /\ buffer = <<ZeroBuf>>
    /\ callback = FALSE
    /\ ops = <<>>
    /\ i2c_enabled = FALSE
    /\ int_enabled = FALSE
    /\ pin_input = FALSE
    /\ pin \in BOOLEAN
    /\ raw = ZeroBuf
    /\ accepted = 0
    /\ callbacks = 0
    /\ last = NoEntry

\* The variables after an entry point that left the driver as d.
Commit(d, op, status) ==
    /\ state' = d.state
    /\ deact' = d.deact
    /\ buffer' = d.buffer
    /\ callback' = d.callback
    /\ ops' = d.ops
    /\ i2c_enabled' = d.i2c_enabled
    /\ int_enabled' = d.int_enabled
    /\ pin_input' = d.pin_input
    /\ accepted' = d.accepted
    /\ callbacks' = d.callbacks
    /\ last' = [ op |-> op, from |-> state, carried |-> deact,
                 status |-> status, level |-> pin', ret |-> d.ret,
                 cbs |-> d.cbs, issued |-> d.issued ]

\* What the client may do inside a callback, within the bound on requests.
ReentryChoices == IF accepted < MaxRequests THEN Reentry ELSE {NoReentry}

SetClient ==
    /\ ~callback
    /\ UNCHANGED <<pin, raw>>
    /\ Commit(set_client(Driver), "set_client", "none")

ReadAccelerometer ==
    /\ accepted < MaxRequests
    /\ UNCHANGED <<pin, raw>>
    /\ \E res \in I2CResult :
          Commit(start_read_accel(Driver, res), "read_accelerometer", "none")

ReadMagnetometer ==
    /\ accepted < MaxRequests
    /\ UNCHANGED <<pin, raw>>
    /\ \E res \in I2CResult :
          Commit(start_read_magnetometer(Driver, res), "read_magnetometer",
                 "none")

\* The device's oldest transaction is a read that completes with data.
completes_read(d, status) == Head(d.ops).rlen > 0 /\ status = "Ok"

\* The device completes its oldest transaction and calls command_complete
\* with the buffer; a successful read has filled it with the bytes `data`.
deliver(d, status, res, level, re, data) ==
    LET op      == Head(d.ops)
        buffer0 == IF completes_read(d, status)
                   THEN [i \in 1..BUF_LEN |->
                           IF i <= op.rlen THEN data[i] ELSE op.buf[i]]
                   ELSE op.buf
        d0      == [d EXCEPT !.ops = Tail(@)]
    IN  command_complete(d0, buffer0, status, res, level, re)

\* The device completes its oldest transaction and calls command_complete
\* with the buffer; a successful read has filled it with sample bytes.
CommandComplete ==
    /\ ops # <<>>
    /\ UNCHANGED pin
    /\ \E status \in I2CResult, res \in I2CResult, re \in ReentryChoices,
          data \in SampleSet :
          /\ raw' = IF completes_read(Driver, status) THEN data ELSE raw
          /\ Commit(deliver(Driver, status, res, pin, re, data),
                    "command_complete", status)

\* A falling edge on the interrupt line while the interrupt is enabled.
InterruptEdge ==
    /\ pin = TRUE
    /\ int_enabled
    /\ pin' = FALSE
    /\ UNCHANGED raw
    /\ \E res \in I2CResult : Commit(fired(Driver, res), "fired", "none")

\* The line falls while the interrupt is disabled: no notification.
PinFall ==
    /\ pin = TRUE
    /\ ~int_enabled
    /\ pin' = FALSE
    /\ UNCHANGED raw
    /\ Commit(Driver, "pin", "none")

PinRise ==
    /\ pin = FALSE
    /\ pin' = TRUE
    /\ UNCHANGED raw
    /\ Commit(Driver, "pin", "none")

Next ==
    \/ SetClient
    \/ ReadAccelerometer
    \/ ReadMagnetometer
    \/ CommandComplete
    \/ InterruptEdge
    \/ PinFall
    \/ PinRise

Spec == Init /\ [][Next]_vars

----------------------------------------------------------------------------
(* The decode on every pair of sample bytes: the driver is taken to the    *)
(* point where its sample read is in flight, and the read then returns any *)
(* bytes.                                                                  *)

\* The driver as Fxos8700cq::new leaves it.
NewDriver ==
    [ state |-> "Disabled", deact |-> <<0, 0, 0>>, buffer |-> <<ZeroBuf>>,
      callback |-> FALSE, ops |-> <<>>, i2c_enabled |-> FALSE,
      int_enabled |-> FALSE, pin_input |-> FALSE,
      accepted |-> 0, callbacks |-> 0,
      cbs |-> <<>>, issued |-> <<>>, ret |-> "none" ]

\* The driver at the start of its next entry point.
fresh(d) == [d EXCEPT !.cbs = <<>>, !.issued = <<>>, !.ret = "none"]

\* set_client, read_accelerometer, both writes completed, the line found low:
\* the acceleration sample read is in flight.
AccelReadPending ==
    LET d1 == start_read_accel(set_client(NewDriver), "Ok")
        d2 == deliver(fresh(d1), "Ok", "Ok", FALSE, NoReentry, ZeroBuf)
        d3 == deliver(fresh(d2), "Ok", "Ok", FALSE, NoReentry, ZeroBuf)
    IN  fresh(d3)

\* set_client, read_magnetometer, the write completed: the magnetometer
\* sample read is in flight.
MagReadPending ==
    LET d1 == start_read_magnetometer(set_client(NewDriver), "Ok")
        d2 == deliver(fresh(d1), "Ok", "Ok", FALSE, NoReentry, ZeroBuf)
    IN  fresh(d2)

\* The variables are those of the driver d.
Holds(d) ==
    /\ state = d.state
    /\ deact = d.deact
    /\ buffer = d.buffer
    /\ callback = d.callback
    /\ ops = d.ops
    /\ i2c_enabled = d.i2c_enabled
    /\ int_enabled = d.int_enabled
    /\ pin_input = d.pin_input
    /\ accepted = d.accepted
    /\ callbacks = d.callbacks

\* Every pair of bytes on each axis, and the samples of SampleSet.
DecodeSamples ==
    { <<hi, lo, lo, hi, 255 - hi, 255 - lo>> : hi \in 0..255, lo \in 0..255 }
    \cup SampleSet

DecodeInit ==
    /\ \E d \in {AccelReadPending, MagReadPending} : Holds(d)
    /\ pin = FALSE
    /\ raw = ZeroBuf
    /\ last = NoEntry

\* The device completes its transaction with success; a read returns any
\* sample, and the write that follows it is accepted.
DecodeComplete ==
    /\ ops # <<>>
    /\ UNCHANGED pin
    /\ \E data \in IF Head(ops).rlen > 0 THEN DecodeSamples ELSE {ZeroBuf} :
          /\ raw' = IF completes_read(Driver, "Ok") THEN data ELSE raw
          /\ Commit(deliver(Driver, "Ok", "Ok", pin, NoReentry, data),
                    "command_complete", "Ok")

DecodeNext == DecodeComplete

DecodeSpec == DecodeInit /\ [][DecodeNext]_vars

\* The environment does not stop: the I2C device completes every transaction
\* it accepted, the interrupt line keeps changing (and its edges are
\* delivered while the interrupt is enabled), and the client keeps asking.
FairSpec ==
    /\ Spec
    /\ WF_vars(CommandComplete)
    /\ WF_vars(InterruptEdge)
    /\ WF_vars(PinFall)
    /\ WF_vars(PinRise)
    /\ WF_vars(ReadAccelerometer)
    /\ WF_vars(ReadMagnetometer)

----------------------------------------------------------------------------
(* Error-free runs: the device accepts every transaction and completes it  *)
(* with success. The interrupt line is free.                               *)

OkReentryChoices == {re \in ReentryChoices : re.res = "Ok"}

OkReadAccelerometer ==
    /\ accepted < MaxRequests
    /\ UNCHANGED <<pin, raw>>
    /\ Commit(start_read_accel(Driver, "Ok"), "read_accelerometer", "none")

OkReadMagnetometer ==
    /\ accepted < MaxRequests
    /\ UNCHANGED <<pin, raw>>
    /\ Commit(start_read_magnetometer(Driver, "Ok"), "read_magnetometer",
              "none")

OkComplete ==
    /\ ops # <<>>
    /\ UNCHANGED pin
    /\ \E re \in OkReentryChoices, data \in SampleSet :
          /\ raw' = IF completes_read(Driver, "Ok") THEN data ELSE raw
          /\ Commit(deliver(Driver, "Ok", "Ok", pin, re, data),
                    "command_complete", "Ok")

OkInterruptEdge ==
    /\ pin = TRUE
    /\ int_enabled
    /\ pin' = FALSE
    /\ UNCHANGED raw
    /\ Commit(fired(Driver, "Ok"), "fired", "none")

OkNext ==
    \/ SetClient
    \/ OkReadAccelerometer
    \/ OkReadMagnetometer
    \/ OkComplete
    \/ OkInterruptEdge
    \/ PinFall
    \/ PinRise

OkSpec == Init /\ [][OkNext]_vars

----------------------------------------------------------------------------
(* Error-free runs with the sensor driving the data-ready line: the line   *)
(* is high at rest, the sensor pulls it low when a sample is ready and     *)
(* holds it low until the acceleration sample has been read.               *)

SensorInit == Init /\ pin = TRUE

\* The transaction the device completes next reads the acceleration sample.
reads_sample(d) == Head(d.ops).rlen > 0 /\ Head(d.ops).buf[1] = OutXMsb

\* The device completes its transaction with success; reading the sample
\* makes the sensor release the line.
SensorComplete ==
    /\ ops # <<>>
    /\ pin' = IF reads_sample(Driver) THEN TRUE ELSE pin
    /\ \E re \in OkReentryChoices, data \in SampleSet :
          /\ raw' = IF completes_read(Driver, "Ok") THEN data ELSE raw
          /\ Commit(deliver(Driver, "Ok", "Ok", pin, re, data),
                    "command_complete", "Ok")

SensorNext ==
    \/ SetClient
    \/ OkReadAccelerometer
    \/ OkReadMagnetometer
    \/ SensorComplete
    \/ OkInterruptEdge
    \/ PinFall

\* The device completes every transaction it accepted.
SensorSpec == SensorInit /\ [][SensorNext]_vars /\ WF_vars(SensorComplete)

----------------------------------------------------------------------------
(* Vocabulary of the properties.                                           *)

Requests == {"read_accelerometer", "read_magnetometer"}

\* The driver, the device and the pin, without the bookkeeping of `last`.
CoreVars == <<state, deact, buffer, callback, ops, i2c_enabled, int_enabled,
              pin_input, pin, raw, accepted, callbacks>>

\* States in which a transaction is in flight when the sequence is on course.
InFlightStates == { "ReadAccelSetup", "ReadAccelWait", "ReadAccelReading",
                    "ReadAccelDeactivating", "ReadMagStart", "ReadMagValues" }

\* States of the acceleration sequence.
AccelStates == { "ReadAccelSetup", "ReadAccelWait", "ReadAccelWaiting",
                 "ReadAccelReading", "ReadAccelDeactivating" }

\* The last entry point was handed a refusal by the device.
IssueRefused ==
    \E i \in DOMAIN last.issued :
        last.issued[i].by = last.op /\ last.issued[i].res # "Ok"

\* The last entry point was an event handler that met a transport error.
HandlerFailure ==
    /\ last.op \in {"command_complete", "fired"}
    /\ last.status \in I2CError \/ IssueRefused

ZeroArgs == <<Usize(0), Usize(0), Usize(0)>>

\* The client did not start a new request from inside the last callback.
NoRequestInCallback == \A i \in DOMAIN last.cbs : last.cbs[i].re = "none"

----------------------------------------------------------------------------
(* C1 *)

\* C1: a request made in any state other than Disabled returns BUSY and
\* changes nothing: the state and its payload, the buffer and its owner, the
\* device's pending transactions and power, the interrupt and the pin are as
\* before, no transaction is handed to the device and no callback is made.
C1_BusyLeavesSequenceAlone ==
    [][ (last'.op \in Requests /\ state # "Disabled")
          => /\ last'.ret = "BUSY"
             /\ last'.issued = <<>>
             /\ last'.cbs = <<>>
             /\ UNCHANGED CoreVars ]_vars

\* A magnetometer request was refused while the standby write of an
\* acceleration sequence was in flight.
C1_Witness ==
    /\ last.op = "read_magnetometer"
    /\ last.from = "ReadAccelDeactivating"
    /\ last.ret = "BUSY"
    /\ state = "ReadAccelDeactivating"
    /\ ops # <<>>

----------------------------------------------------------------------------
(* C2 *)

\* C2: the callback is never invoked more often than requests were accepted.
C2_CallbacksWithinAccepted == callbacks <= accepted

----------------------------------------------------------------------------
(* C3 *)

\* C3: with a client set, a transport error met by an event handler at any
\* stage of the acceleration sequence (the completion carries an error, or
\* the next transaction is refused, in command_complete or in fired) makes
\* that handler call back exactly once, with zeros, from the Disabled state,
\* and leaves the driver Disabled unless the client asked again from inside
\* the callback.
C3_AccelErrorOneZeroCallback ==
    (callback /\ HandlerFailure /\ last.from \in AccelStates)
      => /\ Len(last.cbs) = 1
         /\ last.cbs[1].args = ZeroArgs
         /\ last.cbs[1].state = "Disabled"
         /\ NoRequestInCallback => state = "Disabled"

----------------------------------------------------------------------------
(* C4 *)

\* C4: whenever an event handler has met a transport error in the middle of
\* a sequence, the driver is eventually Disabled again (and so accepts the
\* next request), provided the device completes what it accepted.
C4_ErrorLeadsToIdle ==
    [](( HandlerFailure /\ last.from # "Disabled") => <>(state = "Disabled"))

----------------------------------------------------------------------------
(* C5 *)

\* C5: whenever the client's callback is invoked, the state is already
\* Disabled and the buffer is already back in the driver, so a request made
\* from inside the callback is not refused with BUSY or NOMEM: it gets as far
\* as handing its first write to the device, and is accepted when the device
\* takes it. If the client asks nothing there, the same holds of a request
\* made right after the handler returns.
C5_CallbackSeesIdleAndBuffer ==
    /\ \A i \in DOMAIN last.cbs :
          /\ last.cbs[i].state = "Disabled"
          /\ last.cbs[i].held
          /\ last.cbs[i].re # "none"
                => /\ last.cbs[i].reached
                   /\ last.cbs[i].ret \notin {"BUSY", "NOMEM"}
    /\ (last.cbs # <<>> /\ NoRequestInCallback)
          => /\ state = "Disabled"
             /\ buffer # <<>>
             /\ start_read_accel(Driver, "Ok").ret = "Ok"
             /\ start_read_magnetometer(Driver, "Ok").ret = "Ok"
             /\ \A res \in I2CError :
                   /\ start_read_accel(Driver, res).issued # <<>>
                   /\ start_read_magnetometer(Driver, res).issued # <<>>

\* A callback delivering a decoded sample, from inside which the client's
\* next acceleration request was accepted.
C5_Witness ==
    /\ last.op = "command_complete"
    /\ last.status = "Ok"
    /\ Len(last.cbs) = 1
    /\ last.cbs[1].args # ZeroArgs
    /\ last.cbs[1].re = "read_accelerometer"
    /\ last.cbs[1].ret = "Ok"
    /\ state = "ReadAccelSetup"

----------------------------------------------------------------------------
(* C6 *)

\* C6: the buffer is in exactly one place, the driver's TakeCell or the one
\* transaction the device holds; the device never holds more than one
\* transaction; a transaction is handed over only when the TakeCell is empty
\* and the device holds none; no transaction is in flight, and no completion
\* is delivered, in Disabled or ReadAccelWaiting.
C6_BufferNeverLost ==
    /\ Len(buffer) + Len(ops) = 1
    /\ Len(ops) <= 1
    /\ \A i \in DOMAIN last.issued :
          ~last.issued[i].held /\ last.issued[i].pending = 0
    /\ ops # <<>> => state \in InFlightStates
    /\ last.op = "command_complete" => last.from \in InFlightStates

\* The interrupt handler took the buffer in ReadAccelWaiting and the device
\* holds it for the sample read.
C6_Witness ==
    /\ last.op = "fired"
    /\ last.from = "ReadAccelWaiting"
    /\ state = "ReadAccelReading"
    /\ buffer = <<>>
    /\ Len(ops) = 1
    /\ ops[1].kind = "write_read"

----------------------------------------------------------------------------
(* C7 *)

\* C7: between entry points, Disabled implies that the driver holds the
\* buffer; no request, top-level or from inside a callback, returns NOMEM.
C7_IdleHoldsBuffer ==
    /\ state = "Disabled" => buffer # <<>>
    /\ last.ret # "NOMEM"
    /\ \A i \in DOMAIN last.cbs : last.cbs[i].ret # "NOMEM"

\* A second request accepted after a sequence that ended in a callback.
C7_Witness ==
    /\ last.op \in Requests
    /\ last.from = "Disabled"
    /\ last.ret = "Ok"
    /\ callbacks >= 1
    /\ accepted = 2

----------------------------------------------------------------------------
(* C8 *)

\* C8: when command_complete meets a failure (its status is an error, or the
\* transaction it issues is refused), it hands no transaction to the device,
\* and the client, if set, is called exactly once, with zeros, seeing
\* Disabled and the buffer in the driver; unless the client asks again from
\* there, the handler returns with the state Disabled, the buffer held and
\* nothing in flight. Values carried by ReadAccelDeactivating are dropped.
C8_CompletionFailureResets ==
    (last.op = "command_complete" /\ HandlerFailure)
      => /\ last.from \in InFlightStates
         /\ \A i \in DOMAIN last.issued :
               last.issued[i].by = "command_complete"
                  => last.issued[i].res # "Ok"
         /\ callback => /\ Len(last.cbs) = 1
                        /\ last.cbs[1].args = ZeroArgs
                        /\ last.cbs[1].state = "Disabled"
                        /\ last.cbs[1].held
         /\ ~callback => last.cbs = <<>>
         /\ NoRequestInCallback
               => state = "Disabled" /\ buffer # <<>> /\ ops = <<>>
         /\ deact = <<0, 0, 0>>

\* The standby write failed after a non-zero sample had been decoded.
C8_Witness ==
    /\ last.op = "command_complete"
    /\ last.from = "ReadAccelDeactivating"
    /\ last.status \in I2CError
    /\ last.carried # <<0, 0, 0>>
    /\ Len(last.cbs) = 1
    /\ last.cbs[1].args = ZeroArgs
    /\ state = "Disabled"

----------------------------------------------------------------------------
(* C9 *)

\* C9: when the device refuses the first write of a request made in
\* Disabled, the request returns the device's error (converted), the state
\* is Disabled, the buffer is in the driver, the device is disabled and holds
\* nothing, no callback was made, and a next request of either kind is
\* accepted when the device takes its write.
C9_FirstWriteRefused ==
    (last.op \in Requests /\ last.from = "Disabled" /\ IssueRefused)
      => /\ Len(last.issued) = 1
         /\ last.ret = into(last.issued[1].res)
         /\ state = "Disabled"
         /\ buffer # <<>>
         /\ ~i2c_enabled
         /\ ops = <<>>
         /\ last.cbs = <<>>
         /\ start_read_accel(Driver, "Ok").ret = "Ok"
         /\ start_read_magnetometer(Driver, "Ok").ret = "Ok"

\* An acceleration request whose first write the device refused.
C9_Witness ==
    /\ last.op = "read_accelerometer"
    /\ last.from = "Disabled"
    /\ last.ret = into("ArbitrationLost")
    /\ state = "Disabled"

----------------------------------------------------------------------------
(* C10 *)

C10_Sample == <<16, 0, 32, 0, 48, 0>>

\* C10 as claimed: when the acceleration read returned the bytes 0x10 0x00
\* 0x20 0x00 0x30 0x00, the callback made on the successful completion of
\* the standby write receives X = 249, Y = 498, Z = 747.
C10_DecodeAsClaimed ==
    ( /\ last.op = "command_complete"
      /\ last.from = "ReadAccelDeactivating"
      /\ last.status = "Ok"
      /\ raw = C10_Sample
      /\ callback )
       => /\ Len(last.cbs) = 1
          /\ last.cbs[1].args = <<Usize(249), Usize(498), Usize(747)>>

\* C10, amended: for these bytes the state carries (249, 499, 749) during
\* the standby write and the callback made on its successful completion
\* receives X = 249, Y = 499, Z = 749.
C10_DecodeExample ==
    /\ (state = "ReadAccelDeactivating" /\ raw = C10_Sample)
          => deact = <<249, 499, 749>>
    /\ ( /\ last.op = "command_complete"
         /\ last.from = "ReadAccelDeactivating"
         /\ last.status = "Ok"
         /\ raw = C10_Sample
         /\ callback )
          => /\ Len(last.cbs) = 1
             /\ last.cbs[1].args = <<Usize(249), Usize(499), Usize(749)>>

\* The callback of a successful acceleration sequence that read these bytes.
C10_Witness ==
    /\ last.op = "command_complete"
    /\ last.from = "ReadAccelDeactivating"
    /\ last.status = "Ok"
    /\ raw = C10_Sample
    /\ Len(last.cbs) = 1
    /\ last.cbs[1].args = <<Usize(249), Usize(499), Usize(749)>>

----------------------------------------------------------------------------
(* C11 *)

\* A usize read back as a signed word (isize), as the receiver of the
\* callback does to obtain a signed axis value.
AsSigned(u) ==
    IF u.hi >= 32768 THEN (u.hi - 65536) * 65536 + u.lo
    ELSE u.hi * 65536 + u.lo

\* hi * 256 + lo as a 16-bit two's-complement value.
Signed16(hi, lo) ==
    LET n == hi * 256 + lo IN IF n >= 32768 THEN n - 65536 ELSE n

\* The 14-bit sample: the 16-bit value shifted right by 2, sign preserved.
Sample14(hi, lo) ==
    LET v == Signed16(hi, lo) IN (v - (v % 4)) \div 4

\* The sample times 244, divided by 1000 with truncation toward zero.
AccelRef(hi, lo) ==
    LET a == Sample14(hi, lo) * 244
    IN  IF a < 0 /\ a % 1000 # 0 THEN (a \div 1000) + 1 ELSE a \div 1000

\* C11: for every pair of sample bytes (hi, lo) of an axis, the value carried
\* in ReadAccelDeactivating is the 16-bit two's-complement value hi*256+lo,
\* shifted right by 2 with the sign kept (within -8192..8191), times 244,
\* divided by 1000 with truncation toward zero; it fits in 16 signed bits; and
\* the callback made when the standby write completes receives that value
\* (as a machine word that reads back, signed, as the same number).
C11_AccelAxisDecode ==
    /\ state = "ReadAccelDeactivating"
          => \A k \in 1..3 :
                LET hi == raw[2 * k - 1]
                    lo == raw[2 * k]
                IN  /\ Sample14(hi, lo) \in -8192..8191
                    /\ AccelRef(hi, lo) \in -32768..32767
                    /\ deact[k] = AccelRef(hi, lo)
    /\ ( /\ last.op = "command_complete"
         /\ last.from = "ReadAccelDeactivating"
         /\ last.status = "Ok"
         /\ callback )
          => /\ Len(last.cbs) = 1
             /\ \A k \in 1..3 :
                   /\ last.carried[k] = AccelRef(raw[2 * k - 1], raw[2 * k])
                   /\ last.cbs[1].args[k] = AsUsize(last.carried[k])
                   /\ AsSigned(last.cbs[1].args[k]) = last.carried[k]

\* The callback of a sequence whose X bytes were 0x80 0x00: -8192 * 244 / 1000
\* is -1998 (rounding down would give -1999).
C11_Witness ==
    /\ last.op = "command_complete"
    /\ last.from = "ReadAccelDeactivating"
    /\ raw[1] = 128
    /\ raw[2] = 0
    /\ last.carried[1] = -1998
    /\ Len(last.cbs) = 1
    /\ AsSigned(last.cbs[1].args[1]) = -1998

----------------------------------------------------------------------------
(* C12 *)

C12_Sample == <<255, 255, 0, 1, 128, 0>>

\* C12: for every 6 sample bytes returned by the magnetometer read, each axis
\* the callback receives is the signed 16-bit two's-complement value of
\* hi * 256 + lo, with no shift and no scaling (as a machine word that reads
\* back, signed, as that number); the bytes 0xFF 0xFF 0x00 0x01 0x80 0x00
\* give X = -1, Y = 1, Z = -32768.
C12_MagDecode ==
    ( /\ last.op = "command_complete"
      /\ last.from = "ReadMagValues"
      /\ last.status = "Ok"
      /\ callback )
       => /\ Len(last.cbs) = 1
          /\ \A k \in 1..3 :
                AsSigned(last.cbs[1].args[k])
                   = Signed16(raw[2 * k - 1], raw[2 * k])
          /\ raw = C12_Sample
                => /\ AsSigned(last.cbs[1].args[1]) = -1
                   /\ AsSigned(last.cbs[1].args[2]) = 1
                   /\ AsSigned(last.cbs[1].args[3]) = -32768

\* The callback of a magnetometer sequence that read the bytes of the example.
C12_Witness ==
    /\ last.op = "command_complete"
    /\ last.from = "ReadMagValues"
    /\ last.status = "Ok"
    /\ raw = C12_Sample
    /\ Len(last.cbs) = 1
    /\ last.cbs[1].args = <<AsUsize(-1), AsUsize(1), AsUsize(-32768)>>
    /\ state = "Disabled"

----------------------------------------------------------------------------
(* C13 *)

\* C13: in every reachable state, Disabled implies that the interrupt of the
\* data-ready line is disarmed.
C13_IdleDisarmed == state = "Disabled" => ~int_enabled

----------------------------------------------------------------------------
(* C14 *)

\* C14: an interrupt edge delivered in any state other than ReadAccelWaiting
\* leaves the state, the buffer and its owner and the device's power
\* unchanged and issues no transaction; delivered in ReadAccelWaiting it
\* disables the interrupt, enables the device, issues the 1-byte-write /
\* 6-byte-read and, when the device takes it, moves to ReadAccelReading.
C14_EdgeOnlyWhenWaiting ==
    [][ last'.op = "fired"
          => IF state = "ReadAccelWaiting"
             THEN /\ ~int_enabled'
                  /\ Len(last'.issued) = 1
                  /\ last'.issued[1].kind = "write_read"
                  /\ last'.issued[1].wlen = 1
                  /\ last'.issued[1].rlen = 6
                  /\ last'.issued[1].enabled
                  /\ last'.issued[1].res = "Ok"
                        => state' = "ReadAccelReading" /\ i2c_enabled'
             ELSE /\ UNCHANGED <<state, deact, buffer, ops, i2c_enabled>>
                  /\ last'.issued = <<>> ]_vars

----------------------------------------------------------------------------
(* C15 *)

\* C15: in every reachable state, Disabled implies that the I2C device is
\* disabled.
C15_IdleBusOff == state = "Disabled" => ~i2c_enabled

----------------------------------------------------------------------------
(* C20 *)

\* C20: whenever the device holds a transaction it is enabled, and it was
\* enabled at the moment each transaction was handed to it, by a request, by
\* command_complete or by fired().
C20_InFlightImpliesEnabled ==
    /\ ops # <<>> => i2c_enabled
    /\ \A i \in DOMAIN last.issued : last.issued[i].enabled

\* fired() found the device disabled in ReadAccelWaiting and its sample read
\* is in flight with the device enabled.
C20_Witness ==
    /\ last.op = "fired"
    /\ last.from = "ReadAccelWaiting"
    /\ Len(last.issued) = 1
    /\ last.issued[1].enabled
    /\ ops # <<>>
    /\ i2c_enabled

----------------------------------------------------------------------------
(* C16 *)

\* The 6-byte read of the acceleration sample is in flight.
SampleReadInFlight ==
    /\ state = "ReadAccelReading"
    /\ Len(ops) = 1
    /\ ops[1].kind = "write_read"
    /\ ops[1].wlen = 1
    /\ ops[1].rlen = 6
    /\ ops[1].buf[1] = OutXMsb

\* The sensor holds the line low after the interrupt was armed, while the
\* enable write is in flight or while the driver waits for the edge.
AssertedAfterArming ==
    /\ pin = FALSE
    /\ state \in {"ReadAccelWait", "ReadAccelWaiting"}

\* The edge was just delivered to fired() in one of these two states.
EdgeAfterArming ==
    /\ last.op = "fired"
    /\ last.from \in {"ReadAccelWait", "ReadAccelWaiting"}

\* C16: when the sensor pulls the line low (and holds it until the sample is
\* read) after the interrupt was armed, during the enable write or in
\* ReadAccelWaiting, and transactions are accepted and complete with success,
\* the driver eventually has the 6-byte sample read in flight in
\* ReadAccelReading.
C16_AssertedLeadsToReading ==
    (AssertedAfterArming \/ EdgeAfterArming) ~> SampleReadInFlight

\* The edge came while the enable write was in flight and found no buffer;
\* the completion of the write then found the line low and issued the read.
C16_Witness ==
    /\ last.op = "command_complete"
    /\ last.from = "ReadAccelWait"
    /\ last.level = FALSE
    /\ pin = FALSE
    /\ ~int_enabled
    /\ SampleReadInFlight

----------------------------------------------------------------------------
(* C17 *)

\* The driver and the device, without the record of what one entry point did.
Core(d) ==
    [ state |-> d.state, deact |-> d.deact, buffer |-> d.buffer,
      callback |-> d.callback, ops |-> d.ops, i2c_enabled |-> d.i2c_enabled,
      int_enabled |-> d.int_enabled, pin_input |-> d.pin_input,
      accepted |-> d.accepted, callbacks |-> d.callbacks ]

\* The transaction c is the 1-byte-write / 6-byte-read of the sample.
IsSampleRead(c) ==
    /\ c.kind = "write_read"
    /\ c.wlen = 1
    /\ c.rlen = 6
    /\ c.data = <<OutXMsb>>

\* The enable write completes with success and the line reads low.
DirectPath == deliver(Driver, "Ok", "Ok", FALSE, NoReentry, ZeroBuf)

\* The enable write completes with success, the line reads high, and the
\* edge then arrives.
EdgePath ==
    fired(fresh(deliver(Driver, "Ok", "Ok", TRUE, NoReentry, ZeroBuf)), "Ok")

\* The sample read of driver d completes with the bytes `data`, then the
\* standby write completes.
ThenSample(d, data) ==
    LET d1 == deliver(fresh(d), "Ok", "Ok", TRUE, NoReentry, data)
    IN  deliver(fresh(d1), "Ok", "Ok", TRUE, NoReentry, data)

\* What a successful completion of the enable write does.
C17_AfterEnableWrite ==
    (last.op = "command_complete" /\ last.from = "ReadAccelWait"
       /\ last.status = "Ok")
      => IF last.level = FALSE
         THEN /\ Len(last.issued) >= 1
              /\ IsSampleRead(last.issued[1])
              /\ last.issued[1].by = "command_complete"
              /\ last.issued[1].enabled
              /\ ~last.issued[1].armed
              /\ last.issued[1].res = "Ok"
                    => /\ state = "ReadAccelReading"
                       /\ ~int_enabled
                       /\ i2c_enabled
                       /\ buffer = <<>>
                       /\ last.cbs = <<>>
         ELSE /\ last.issued = <<>>
              /\ last.cbs = <<>>
              /\ buffer # <<>>
              /\ ops = <<>>
              /\ ~i2c_enabled
              /\ int_enabled
              /\ state = "ReadAccelWaiting"

\* From any state with the enable write in flight, the two paths end in the
\* same driver and device, with the same read in flight, and every sample
\* then yields the same carried values and the same callback.
C17_PathsConverge ==
    (state = "ReadAccelWait" /\ ops # <<>>)
      => /\ Core(DirectPath) = Core(EdgePath)
         /\ DirectPath.state = "ReadAccelReading"
         /\ Len(DirectPath.issued) = 1 /\ Len(EdgePath.issued) = 1
         /\ IsSampleRead(DirectPath.issued[1])
         /\ IsSampleRead(EdgePath.issued[1])
         /\ \A data \in SampleSet :
               LET a == ThenSample(DirectPath, data)
                   b == ThenSample(EdgePath, data)
               IN  /\ Core(a) = Core(b)
                   /\ a.cbs = b.cbs
                   /\ a.state = "Disabled"
                   /\ callback
                        => /\ Len(a.cbs) = 1
                           /\ \A k \in 1..3 :
                                 a.cbs[1].args[k]
                                   = AsUsize(accel_axis(data[2 * k - 1],
                                                        data[2 * k]))

\* C17: on the successful completion of the enable write in ReadAccelWait,
\* a line that reads low makes the driver disable the interrupt and issue the
\* 6-byte read with the device still enabled; a line that reads high makes it
\* issue nothing, take the buffer back, disable the device and enter
\* ReadAccelWaiting, which only fired() leaves. Both paths reach the same
\* ReadAccelReading state and decode the same bytes to the same values.
C17_RaceCheck ==
    /\ [](C17_AfterEnableWrite /\ C17_PathsConverge)
    /\ [][ (state = "ReadAccelWaiting" /\ state' # state)
             => (last'.op = "fired" /\ state' = "ReadAccelReading") ]_vars

\* The completion found the line high: the driver waits for the edge with
\* the buffer back and the device disabled.
C17_Witness ==
    /\ last.op = "command_complete"
    /\ last.from = "ReadAccelWait"
    /\ last.status = "Ok"
    /\ last.level = TRUE
    /\ state = "ReadAccelWaiting"
    /\ buffer # <<>>
    /\ ~i2c_enabled
    /\ int_enabled

----------------------------------------------------------------------------
(* C18 *)

\* The transaction c is a write of the bytes `data`.
IsWrite(c, data) ==
    /\ c.kind = "write"
    /\ c.wlen = Len(data)
    /\ c.rlen = 0
    /\ c.data = data

\* The three axes decoded from the bytes of the last read.
AccelOfRaw == << accel_axis(raw[1], raw[2]), accel_axis(raw[3], raw[4]),
                 accel_axis(raw[5], raw[6]) >>

\* The last entry point was command_complete in state s.
CompletedIn(s) == last.op = "command_complete" /\ last.from = s

\* What each step of an error-free acceleration sequence does.
C18_Steps ==
    /\ (last.op = "read_accelerometer" /\ last.ret = "Ok")
          => /\ last.from = "Disabled"
             /\ state = "ReadAccelSetup"
             /\ Len(last.issued) = 1
             /\ IsWrite(last.issued[1], <<CtrlReg4, 1, 1>>)
             /\ ~last.issued[1].armed
             /\ last.cbs = <<>>
    /\ CompletedIn("ReadAccelSetup")
          => /\ state = "ReadAccelWait"
             /\ int_enabled
             /\ Len(last.issued) = 1
             /\ IsWrite(last.issued[1], <<CtrlReg1, 1>>)
             /\ last.issued[1].armed
             /\ last.cbs = <<>>
    /\ CompletedIn("ReadAccelWait")
          => /\ last.cbs = <<>>
             /\ IF last.level = FALSE
                THEN /\ Len(last.issued) = 1
                     /\ IsSampleRead(last.issued[1])
                     /\ state = "ReadAccelReading"
                ELSE /\ last.issued = <<>>
                     /\ state = "ReadAccelWaiting"
    /\ last.op = "fired"
          => /\ last.cbs = <<>>
             /\ IF last.from = "ReadAccelWaiting"
                THEN /\ Len(last.issued) = 1
                     /\ IsSampleRead(last.issued[1])
                     /\ state = "ReadAccelReading"
                ELSE /\ last.issued = <<>>
                     /\ state = last.from
    /\ CompletedIn("ReadAccelReading")
          => /\ state = "ReadAccelDeactivating"
             /\ deact = AccelOfRaw
             /\ Len(last.issued) = 1
             /\ IsWrite(last.issued[1], <<CtrlReg1, 0>>)
             /\ i2c_enabled
             /\ last.cbs = <<>>
    /\ CompletedIn("ReadAccelDeactivating")
          => /\ last.carried = AccelOfRaw
             /\ \A i \in DOMAIN last.issued :
                   last.issued[i].by # "command_complete"
             /\ ~callback => last.cbs = <<>>
             /\ callback
                   => /\ Len(last.cbs) = 1
                      /\ last.cbs[1].args = << AsUsize(last.carried[1]),
                                               AsUsize(last.carried[2]),
                                               AsUsize(last.carried[3]) >>
                      /\ last.cbs[1].state = "Disabled"
                      /\ last.cbs[1].held
                      /\ ~last.cbs[1].i2c_enabled
             /\ NoRequestInCallback
                   => state = "Disabled" /\ ~i2c_enabled /\ buffer # <<>>
    /\ last.cbs # <<>>
          => \/ CompletedIn("ReadAccelDeactivating")
             \/ CompletedIn("ReadMagValues")

\* The order of the states of an acceleration sequence.
AccelOrder ==
    { <<"Disabled", "ReadAccelSetup">>,
      <<"ReadAccelSetup", "ReadAccelWait">>,
      <<"ReadAccelWait", "ReadAccelWaiting">>,
      <<"ReadAccelWait", "ReadAccelReading">>,
      <<"ReadAccelWaiting", "ReadAccelReading">>,
      <<"ReadAccelReading", "ReadAccelDeactivating">>,
      <<"ReadAccelDeactivating", "Disabled">> }

\* The client started the request `kind` from inside the callback of the
\* step being taken.
AskedInCallback(kind) ==
    /\ Len(last'.cbs) = 1
    /\ last'.cbs[1].state = "Disabled"
    /\ last'.cbs[1].re = kind

\* C18: in an error-free acceleration sequence the request issues the
\* 3-byte write (Disabled to ReadAccelSetup); its completion arms the
\* falling-edge interrupt and only then issues the 2-byte enable write
\* (ReadAccelWait); then, possibly after ReadAccelWaiting, the 1-byte-write /
\* 6-byte-read (ReadAccelReading); its completion decodes and issues the
\* 2-byte standby write (ReadAccelDeactivating carrying x, y, z); only the
\* completion of the standby write disables the device, sets Disabled and
\* calls back, once, with the carried values. No other step of the sequence
\* calls back, and the states follow one another in this order only.
C18_AccelSequence ==
    /\ []C18_Steps
    /\ [][ (state' # state /\ (state \in AccelStates \/ state' \in AccelStates))
             => \/ <<state, state'>> \in AccelOrder
                \/ /\ state \in {"ReadAccelDeactivating", "ReadMagValues"}
                   /\ AskedInCallback("read_accelerometer")
                   /\ state' = "ReadAccelSetup"
                \/ /\ state = "ReadAccelDeactivating"
                   /\ AskedInCallback("read_magnetometer")
                   /\ state' = "ReadMagStart" ]_vars

\* The callback of an error-free sequence whose Z bytes were 0x80 0x00.
C18_Witness ==
    /\ CompletedIn("ReadAccelDeactivating")
    /\ last.carried = <<0, 0, -1998>>
    /\ Len(last.cbs) = 1
    /\ last.cbs[1].args = <<AsUsize(0), AsUsize(0), AsUsize(-1998)>>
    /\ ~last.cbs[1].i2c_enabled
    /\ state = "Disabled"
    /\ ~int_enabled

----------------------------------------------------------------------------
(* C19 *)

MagStates == {"ReadMagStart", "ReadMagValues"}

\* The three axes decoded from the bytes of the last read.
MagOfRaw == << mag_axis(raw[1], raw[2]), mag_axis(raw[3], raw[4]),
               mag_axis(raw[5], raw[6]) >>

\* What each step of an error-free magnetometer sequence does.
C19_Steps ==
    /\ (last.op = "read_magnetometer" /\ last.ret = "Ok")
          => /\ last.from = "Disabled"
             /\ state = "ReadMagStart"
             /\ Len(last.issued) = 1
             /\ IsWrite(last.issued[1], <<MCtrlReg1, 35>>)
             /\ last.cbs = <<>>
    /\ CompletedIn("ReadMagStart")
          => /\ state = "ReadMagValues"
             /\ Len(last.issued) = 1
             /\ last.issued[1].kind = "write_read"
             /\ last.issued[1].wlen = 1
             /\ last.issued[1].rlen = 6
             /\ last.issued[1].data = <<MOutXMsb>>
             /\ last.cbs = <<>>
    /\ CompletedIn("ReadMagValues")
          => /\ \A i \in DOMAIN last.issued :
                   last.issued[i].by # "command_complete"
             /\ ~callback => last.cbs = <<>>
             /\ callback
                   => /\ Len(last.cbs) = 1
                      /\ last.cbs[1].args = << AsUsize(MagOfRaw[1]),
                                               AsUsize(MagOfRaw[2]),
                                               AsUsize(MagOfRaw[3]) >>
                      /\ last.cbs[1].state = "Disabled"
                      /\ last.cbs[1].held
                      /\ ~last.cbs[1].i2c_enabled
                      /\ ~last.cbs[1].int_enabled
             /\ NoRequestInCallback
                   => state = "Disabled" /\ ~i2c_enabled /\ buffer # <<>>
    /\ state \in MagStates
          => /\ ~int_enabled
             /\ Len(ops) = 1
             /\ i2c_enabled
    /\ ~(last.op = "fired" /\ last.from \in MagStates)

\* C19: an error-free magnetometer sequence is the 2-byte write to
\* MCtrlReg1 (Disabled to ReadMagStart), then the 1-byte-write / 6-byte-read
\* from MOutXMsb (ReadMagValues), whose completion disables the device, sets
\* Disabled, puts the buffer back and calls back once with the decoded
\* values without issuing a standby write. No step of the sequence enables
\* the interrupt, which is disabled throughout, and the sequence goes through no acceleration state
\* (a request the client makes inside the callback starts the next sequence).
C19_MagSequence ==
    /\ []C19_Steps
    /\ [][ (state \in MagStates /\ state' # state)
             => \/ state = "ReadMagStart" /\ state' = "ReadMagValues"
                \/ state = "ReadMagValues" /\ state' = "Disabled"
                \/ /\ state = "ReadMagValues"
                   /\ AskedInCallback("read_accelerometer")
                   /\ state' = "ReadAccelSetup"
                \/ /\ state = "ReadMagValues"
                   /\ AskedInCallback("read_magnetometer")
                   /\ state' = "ReadMagStart" ]_vars
    /\ [][ (state' = "ReadMagStart" /\ state' # state)
             => \/ state = "Disabled"
                \/ /\ state \in {"ReadAccelDeactivating", "ReadMagValues"}
                   /\ AskedInCallback("read_magnetometer") ]_vars
    /\ [][ (state \in MagStates \/ last'.op = "read_magnetometer")
             => (int_enabled' => int_enabled) ]_vars

\* The callback of an error-free magnetometer sequence with the values of
\* a non-zero sample, the driver Disabled again with the device disabled.
C19_Witness ==
    /\ CompletedIn("ReadMagValues")
    /\ raw = <<16, 0, 32, 0, 48, 0>>
    /\ Len(last.cbs) = 1
    /\ last.cbs[1].args = <<Usize(4096), Usize(8192), Usize(12288)>>
    /\ last.issued = <<>>
    /\ state = "Disabled"
    /\ ~i2c_enabled
    /\ ~int_enabled

====
